---- MODULE Spec2Model ----
(***************************************************************************)
(* Model of the chat application: the persistence store (src/lib/db.ts),   *)
(* the turn handler POST /api/chat and the conversation handlers           *)
(* POST/DELETE /api/chats (src/app/api/chat/route.ts).                     *)
(*                                                                         *)
(* A text is a sequence of one-character strings.  The module is ASCII,    *)
(* so the nine characters of the default title (eight Cyrillic letters and *)
(* one space) are written with one Latin letter per Cyrillic letter.       *)
(*                                                                         *)
(* Node runs a handler without interruption between two awaits, so every   *)
(* action below is one such segment of a handler.                          *)
(***************************************************************************)
EXTENDS Integers, Sequences, FiniteSets, TLC

VARIABLES apiKey, chats, messages, nextChat, nextMsg, clock, turn, titleCall

\* apiKey:    whether process.env.OPENAI_API_KEY is set
\* chats:     the chats table, a function from the ids of its rows
\* messages:  the messages table, in insertion order
\* nextChat:  the number of chat ids handed out so far
\* nextMsg:   the number of message ids handed out so far
\* clock:     the last time read from the system clock
\* turn:      the invocations of the turn handler
\* titleCall: the text whose title SpecTitle derives, and whether it has
vars == <<apiKey, chats, messages, nextChat, nextMsg, clock, turn, titleCall>>

(***************************************************************************)
(* Bounds of the model.                                                    *)
(***************************************************************************)
MaxChats == 2
MaxMsgs == 3
MaxClock == 1
MaxShort == 4
MaxOver == 2
MaxRaceMsgs == 4

\* The invocations of the turn handler that can be under way at once
Turns == {"t1", "t2"}

(***************************************************************************)
(* Text: characters, whitespace, trim and whitespace collapsing.           *)
(***************************************************************************)
Whitespace == {" ", "\t"}

RECURSIVE TrimStart(_)
TrimStart(s) ==
    IF s # <<>> /\ Head(s) \in Whitespace THEN TrimStart(Tail(s)) ELSE s

RECURSIVE TrimEnd(_)
TrimEnd(s) ==
    IF s # <<>> /\ s[Len(s)] \in Whitespace
    THEN TrimEnd(SubSeq(s, 1, Len(s) - 1))
    ELSE s

\* String.prototype.trim
Trim(s) == TrimEnd(TrimStart(s))

\* text.replace(/\s+/g, " "): every maximal run of whitespace becomes one space
RECURSIVE CollapseWs(_)
CollapseWs(s) ==
    IF s = <<>> THEN <<>>
    ELSE IF Head(s) \in Whitespace
         THEN <<" ">> \o CollapseWs(TrimStart(s))
         ELSE <<Head(s)>> \o CollapseWs(Tail(s))

\* The placeholder title (db.ts and the chats route spell it out)
DefaultTitle == <<"N", "o", "v", "y", "j", " ", "c", "a", "t">>

Ellipsis == <<".", ".", ".">>

TitleMax == 60
TitleKeep == 57

\* normalizeTitle with the cap compared strictly
normalizeTitleStrictCap(text) ==
    LET cleaned == Trim(CollapseWs(text))
    IN  IF cleaned = <<>> THEN DefaultTitle
        ELSE IF Len(cleaned) < TitleMax THEN cleaned
        ELSE SubSeq(cleaned, 1, TitleKeep) \o Ellipsis

normalizeTitle(text) ==
    LET cleaned == Trim(CollapseWs(text))
    IN  IF cleaned = <<>> THEN DefaultTitle
        ELSE IF Len(cleaned) <= TitleMax THEN cleaned
        ELSE SubSeq(cleaned, 1, TitleKeep) \o Ellipsis

(***************************************************************************)
(* Persistence store (src/lib/db.ts).  chats is the chats table, a         *)
(* function from the ids of the stored rows; messages is the messages      *)
(* table in insertion (rowid) order.                                       *)
(***************************************************************************)

\* The foreign key of the messages table left unenforced
ForeignKeysOff == FALSE

\* better-sqlite3 builds SQLite with foreign-key enforcement switched on, so
\* the FOREIGN KEY clause of the messages table is enforced.
ForeignKeysOn == TRUE

\* The ids randomUUID hands out, in the order it hands them out
ChatIdList == <<"c1", "c2", "c3", "c4">>

ChatRow(space, title, now, explicit) ==
    [space |-> space, title |-> title, createdAt |-> now, updatedAt |-> now,
     explicit |-> explicit]

MessageRow(id, chatId, role, text, now) ==
    [id |-> id, chatId |-> chatId, role |-> role, text |-> text,
     createdAt |-> now]

\* getChat that finds every id
getChatAlways(chs, chatId) == TRUE

getChat(chs, chatId) == chatId \in DOMAIN chs

\* INSERT INTO chats: the row the new id maps to
createChat(chs, id, space, title, now, explicit) ==
    chs @@ (id :> ChatRow(space, title, now, explicit))

\* Stable insertion of a row into a sequence ordered by created_at
RECURSIVE InsertByCreated(_, _)
InsertByCreated(sorted, m) ==
    IF sorted = <<>> THEN <<m>>
    ELSE IF sorted[Len(sorted)].createdAt <= m.createdAt
         THEN Append(sorted, m)
         ELSE Append(InsertByCreated(SubSeq(sorted, 1, Len(sorted) - 1), m),
                     sorted[Len(sorted)])

RECURSIVE OrderByCreated(_)
OrderByCreated(ms) ==
    IF ms = <<>> THEN <<>>
    ELSE InsertByCreated(OrderByCreated(SubSeq(ms, 1, Len(ms) - 1)),
                         ms[Len(ms)])

ChatIs(chatId, m) == m.chatId = chatId

\* listMessages that leaves out a last message that has no reply yet
listMessagesAnswered(ms, chatId) ==
    LET h == OrderByCreated(SelectSeq(ms, LAMBDA m : ChatIs(chatId, m)))
    IN  IF h # <<>> /\ h[Len(h)].role = "user"
        THEN SubSeq(h, 1, Len(h) - 1)
        ELSE h

\* SELECT ... FROM messages WHERE chat_id = ? ORDER BY created_at ASC
listMessages(ms, chatId) ==
    OrderByCreated(SelectSeq(ms, LAMBDA m : ChatIs(chatId, m)))

\* mapChat: the summary of a stored row
mapChat(chs, id) ==
    [id |-> id, space |-> chs[id].space, title |-> chs[id].title,
     createdAt |-> chs[id].createdAt, updatedAt |-> chs[id].updatedAt]

\* The summaries of the rows with these ids, in the order of the table, from
\* position i of the ids handed out
RECURSIVE TableRows(_, _, _)
TableRows(chs, ids, i) ==
    IF i > Len(ChatIdList) THEN <<>>
    ELSE IF ChatIdList[i] \in ids
         THEN <<mapChat(chs, ChatIdList[i])>> \o TableRows(chs, ids, i + 1)
         ELSE TableRows(chs, ids, i + 1)

\* Stable insertion of a row into a sequence ordered by updated_at, latest
\* first
RECURSIVE InsertByUpdated(_, _)
InsertByUpdated(sorted, r) ==
    IF sorted = <<>> THEN <<r>>
    ELSE IF sorted[Len(sorted)].updatedAt >= r.updatedAt
         THEN Append(sorted, r)
         ELSE Append(InsertByUpdated(SubSeq(sorted, 1, Len(sorted) - 1), r),
                     sorted[Len(sorted)])

RECURSIVE OrderByUpdated(_)
OrderByUpdated(rows) ==
    IF rows = <<>> THEN <<>>
    ELSE InsertByUpdated(OrderByUpdated(SubSeq(rows, 1, Len(rows) - 1)),
                         rows[Len(rows)])

\* listChats without its WHERE clause
listChatsAnySpace(chs, space) ==
    OrderByUpdated(TableRows(chs, DOMAIN chs, 1))

\* SELECT ... FROM chats WHERE space = ? ORDER BY updated_at DESC
listChats(chs, space) ==
    OrderByUpdated(
        TableRows(chs, {id \in DOMAIN chs : chs[id].space = space}, 1))

\* An INSERT that never fails
addMessageNeverThrows(chs, chatId) == FALSE

\* The INSERT of addMessage fails (throws) when the foreign key is enforced
\* and the chat row is missing
addMessageThrows(chs, chatId) == ForeignKeysOn /\ chatId \notin DOMAIN chs

\* addMessage, first statement: INSERT INTO messages
addMessageInsert(ms, id, chatId, role, text, now) ==
    Append(ms, MessageRow(id, chatId, role, text, now))

\* addMessage writing the chat's creation time back as its updated time
addMessageTouchStale(chs, chatId, now) ==
    IF chatId \in DOMAIN chs
    THEN [chs EXCEPT ![chatId].updatedAt = chs[chatId].createdAt]
    ELSE chs

\* addMessage without its second statement
addMessageTouchSkipped(chs, chatId, now) == chs

\* addMessage, second statement: UPDATE chats SET updated_at = ? WHERE id = ?
addMessageTouch(chs, chatId, now) ==
    IF chatId \in DOMAIN chs
    THEN [chs EXCEPT ![chatId].updatedAt = now]
    ELSE chs

\* updateChatTitleIfDefault without the test of the stored title
updateChatTitleAlways(chs, chatId, text) ==
    IF chatId \notin DOMAIN chs
    THEN chs
    ELSE [chs EXCEPT ![chatId].title = normalizeTitle(text)]

updateChatTitleIfDefault(chs, chatId, text) ==
    IF chatId \notin DOMAIN chs \/ chs[chatId].title # DefaultTitle
    THEN chs
    ELSE [chs EXCEPT ![chatId].title = normalizeTitle(text)]

NotOfChat(chatId, m) == m.chatId # chatId

\* deleteChat, first statement: DELETE FROM messages WHERE chat_id = ?
deleteChatMessages(ms, chatId) ==
    SelectSeq(ms, LAMBDA m : NotOfChat(chatId, m))

\* deleteChat, second statement: DELETE FROM chats WHERE id = ?
deleteChatRow(chs, chatId) ==
    [id \in DOMAIN chs \ {chatId} |-> chs[id]]

(***************************************************************************)
(* Requests the environment can send.                                      *)
(***************************************************************************)
Null == "null"

DocxMime == "application/vnd.openxmlformats-officedocument.wordprocessingml.document"

\* An attached document: its declared type and the suffix of its name.  The
\* PDF is known by its type, the DOCX by its name.
PdfFile == [type |-> "application/pdf", ext |-> "bin"]
DocxFile == [type |-> "", ext |-> "docx"]
TxtFile == [type |-> "text/plain", ext |-> "txt"]

\* body.files as sent: none, one file of each kind, and a DOCX followed by
\* a PDF
FileLists == {<<>>, <<PdfFile>>, <<DocxFile>>, <<TxtFile>>,
              <<DocxFile, PdfFile>>}

\* body.images as sent: none or one image; the i-th image is written i
ImageLists == {<<>>, <<1>>}

\* body.text as sent: absent or empty, whitespace only, text with leading and
\* inner whitespace, and a text that spells the placeholder title
RawTexts == {<<>>, <<" ">>, <<" ", "a", " ", " ", "b">>, DefaultTitle}

\* body.chatId: absent, or any id string (of a stored chat or not)
ReqChatIds == {Null} \cup {ChatIdList[i] : i \in 1..MaxChats}

\* The text of a completion
Outputs == {<<>>, <<"o", "k">>}

\* The text block that carries the extracted text of a DOCX file
DocBlockText == <<"d", "o", "c">>

(***************************************************************************)
(* The turn handler POST /api/chat (route.ts lines 34-209).                *)
(***************************************************************************)
\* The locals of an invocation that the code after the next await reads
\* (chatId, files, idx, input, content), what it has done so far (userMsg
\* and assistantMsg, the ids of the messages it stored; calls, the calls to
\* the completion API it issued) and its response (status, error, output)
IdleTurn ==
    [pc |-> "idle", chatId |-> Null, files |-> <<>>, idx |-> 0,
     input |-> <<>>, content |-> <<>>, userMsg |-> 0, assistantMsg |-> 0,
     calls |-> 0, status |-> 0, error |-> "", output |-> <<>>]

\* return NextResponse.json(...): the locals the response does not show die
Respond(rec, status, error) ==
    [rec EXCEPT !.pc = "done", !.status = status, !.error = error,
                !.files = <<>>, !.idx = 0, !.input = <<>>, !.content = <<>>]

isPdf(file) == file.type = "application/pdf" \/ file.ext = "pdf"

isDocx(file) == file.type = DocxMime \/ file.ext = "docx"

\* The history replayed without the filter: an entry for every message
RECURSIVE HistoryInputKeepEmpty(_)
HistoryInputKeepEmpty(history) ==
    IF history = <<>> THEN <<>>
    ELSE LET m == Head(history)
         IN  <<[role |-> m.role,
                content |-> <<[type |-> IF m.role = "assistant"
                                        THEN "output_text"
                                        ELSE "input_text",
                               text |-> Trim(m.text)]>>]>>
             \o HistoryInputKeepEmpty(Tail(history))

\* history.map(...).filter(Boolean): one entry per stored message whose
\* trimmed text is not empty
RECURSIVE HistoryInput(_)
HistoryInput(history) ==
    IF history = <<>> THEN <<>>
    ELSE LET m == Head(history)
             messageText == Trim(m.text)
         IN  IF messageText = <<>> THEN HistoryInput(Tail(history))
             ELSE <<[role |-> m.role,
                     content |-> <<[type |-> IF m.role = "assistant"
                                             THEN "output_text"
                                             ELSE "input_text",
                                    text |-> messageText]>>]>>
                  \o HistoryInput(Tail(history))

\* The text and image parts of the current turn
TextParts(text) ==
    IF text # <<>> THEN <<[type |-> "input_text", text |-> text]>> ELSE <<>>

ImageParts(images) ==
    [i \in 1..Len(images) |-> [type |-> "input_image", image_url |-> images[i]]]

\* What the loop over the files does with a file that is neither a PDF nor
\* a DOCX: nothing, the loop goes on
OtherFile(content, file) == content

\* The loop over the files from index i on, up to the next await (a DOCX
\* file, whose text is extracted) or the end of the list
RECURSIVE RunFiles(_, _, _)
RunFiles(files, i, content) ==
    IF i > Len(files) THEN [await |-> FALSE, idx |-> i, content |-> content]
    ELSE IF isPdf(files[i])
         THEN RunFiles(files, i + 1,
                       Append(content, [type |-> "input_file", file |-> i]))
    ELSE IF isDocx(files[i])
         THEN [await |-> TRUE, idx |-> i, content |-> content]
    ELSE RunFiles(files, i + 1, OtherFile(content, files[i]))

\* BuildFrom with the call issued before the documents are read
BuildFromCallEarly(rec, i, content) ==
    LET r == RunFiles(rec.files, i, content)
    IN  IF r.await
        THEN [rec EXCEPT !.pc = "extract", !.idx = r.idx,
                         !.content = r.content, !.calls = rec.calls + 1]
        ELSE IF r.content = <<>>
        THEN Respond([rec EXCEPT !.content = r.content], 400, "no-content")
        ELSE [rec EXCEPT !.pc = "call", !.idx = r.idx,
                         !.content = r.content,
                         !.input = Append(rec.input,
                                          [role |-> "user",
                                           content |-> r.content]),
                         !.calls = rec.calls + 1]

\* Lines 116-183 from file i on: run the loop; at its end reject an empty
\* current turn, else append the turn to the input and issue the call
BuildFrom(rec, i, content) ==
    LET r == RunFiles(rec.files, i, content)
    IN  IF r.await
        THEN [rec EXCEPT !.pc = "extract", !.idx = r.idx,
                         !.content = r.content]
        ELSE IF r.content = <<>>
        THEN Respond([rec EXCEPT !.content = r.content], 400, "no-content")
        ELSE [rec EXCEPT !.pc = "call", !.idx = r.idx,
                         !.content = r.content,
                         !.input = Append(rec.input,
                                          [role |-> "user",
                                           content |-> r.content]),
                         !.calls = rec.calls + 1]

\* The test of line 66 with the files tested the wrong way round
NoContentMistyped(text, images, files) ==
    text = <<>> /\ Len(images) = 0 /\ Len(files) # 0

\* new Date(): the time read is the time of the last reading or a later one
\* (clock is the last reading)
Now == clock..MaxClock

\* Line 66: the turn carries no text, no image and no file
NoContent(text, images, files) ==
    text = <<>> /\ Len(images) = 0 /\ Len(files) = 0

\* The user's message not stored before the request is built
UserInsertDeferred(ms, id, chatId, text, now) == ms

\* Line 79: the user's message of the turn is inserted
UserInsert(ms, id, chatId, text, now) ==
    addMessageInsert(ms, id, chatId, "user", text, now)

\* Lines 81-83: the title follows a turn with text
TitleAfterUser(chs, chatId, text) ==
    IF text # <<>> THEN updateChatTitleIfDefault(chs, chatId, text) ELSE chs

\* The reply inserted twice
AssistantInsertTwice(ms, id, chatId, text, now) ==
    addMessageInsert(addMessageInsert(ms, id, chatId, "assistant", text, now),
                     id, chatId, "assistant", text, now)

\* Line 199: the reply is inserted
AssistantInsert(ms, id, chatId, text, now) ==
    addMessageInsert(ms, id, chatId, "assistant", text, now)

\* A handler that has answered returns at once: nothing runs between its
\* response and its end
NoneDone == \A u \in Turns : turn[u].pc # "done"

\* The invocations that wait for an extraction or for the completion
InFlight == Cardinality({u \in Turns : turn[u].pc \in {"extract", "call"}})

\* Lines 36-178 up to the first await that follows the parsing of the body:
\* the checks, the load of the history, the user's message, the title, and
\* the build of the request up to the first DOCX extraction or the call
TurnBody(t, chatIds, rawTexts, imageLists, fileLists) ==
    /\ NoneDone
    /\ turn[t].pc = "idle"
    /\ \E chatId \in chatIds, raw \in rawTexts,
          images \in imageLists, files \in fileLists, now \in Now :
         LET text == Trim(raw)
             req == [IdleTurn EXCEPT !.chatId = chatId, !.files = files]
             reject(status, error) ==
                 /\ turn' = [turn EXCEPT ![t] = Respond(req, status, error)]
                 /\ UNCHANGED <<chats, messages, nextMsg, clock>>
         IN  IF ~apiKey THEN reject(500, "no-key")
             ELSE IF chatId = Null THEN reject(400, "chatId-required")
             ELSE IF NoContent(text, images, files)
                  THEN reject(400, "need-content")
             ELSE IF ~getChat(chats, chatId) THEN reject(404, "not-found")
             ELSE LET history == listMessages(messages, chatId)
                      id == nextMsg + 1
                  IN  /\ messages' = UserInsert(messages, id, chatId, text,
                                                now)
                      /\ nextMsg' = id
                      /\ clock' = now
                      /\ chats' = TitleAfterUser(
                                      addMessageTouch(chats, chatId, now),
                                      chatId, text)
                      /\ turn' = [turn EXCEPT ![t] =
                             BuildFrom([req EXCEPT
                                           !.userMsg = id,
                                           !.input = HistoryInput(history)],
                                       1,
                                       TextParts(text) \o ImageParts(images))]
    /\ UNCHANGED <<apiKey, nextChat, titleCall>>

\* An invocation starts while the ids of its two messages, and of the reply
\* of every invocation that waits, are within the bound
TurnStartWith(t, chatIds, rawTexts, imageLists, fileLists) ==
    /\ nextMsg + InFlight + 2 <= MaxMsgs
    /\ TurnBody(t, chatIds, rawTexts, imageLists, fileLists)

TurnStart(t) == TurnStartWith(t, ReqChatIds, RawTexts, ImageLists, FileLists)

\* Lines 139-157: mammoth.extractRawText returns text, returns no text, or
\* throws; with text the loop over the files goes on
ExtractReturn(t) ==
    /\ NoneDone
    /\ turn[t].pc = "extract"
    /\ \E outcome \in {"text", "empty", "throws"} :
         turn' = [turn EXCEPT ![t] =
             IF outcome = "text"
             THEN BuildFrom(turn[t], turn[t].idx + 1,
                            Append(turn[t].content,
                                   [type |-> "input_text",
                                    text |-> DocBlockText]))
             ELSE IF outcome = "empty"
             THEN Respond(turn[t], 400, "file-empty")
             ELSE Respond(turn[t], 400, "file-unreadable")]
    /\ UNCHANGED <<apiKey, chats, messages, nextChat, nextMsg, clock,
                   titleCall>>

\* A catch that issues the call once more after a failure
CallFailsRetry(t) ==
    /\ NoneDone
    /\ turn[t].pc = "call"
    /\ turn[t].calls < 2
    /\ turn' = [turn EXCEPT ![t].calls = turn[t].calls + 1]
    /\ UNCHANGED <<apiKey, chats, messages, nextChat, nextMsg, clock,
                   titleCall>>

\* A catch that swallows the failure and answers nothing
CallFailsSilent(t) ==
    /\ NoneDone
    /\ turn[t].pc = "call"
    /\ turn' = [turn EXCEPT ![t].pc = "lost"]
    /\ UNCHANGED <<apiKey, chats, messages, nextChat, nextMsg, clock,
                   titleCall>>

\* Lines 178, 205-208: responses.create rejects; the catch answers 500
CallFails(t) ==
    /\ NoneDone
    /\ turn[t].pc = "call"
    /\ turn' = [turn EXCEPT ![t] = Respond(turn[t], 500, "upstream")]
    /\ UNCHANGED <<apiKey, chats, messages, nextChat, nextMsg, clock,
                   titleCall>>

\* Lines 178-204: responses.create resolves; the reply is stored and
\* returned.  When the insert throws, the catch answers 500.
CallReturns(t) ==
    /\ NoneDone
    /\ turn[t].pc = "call"
    /\ \E outputText \in Outputs, now \in Now :
         IF addMessageThrows(chats, turn[t].chatId)
         THEN /\ turn' = [turn EXCEPT ![t] =
                     Respond(turn[t], 500, "constraint")]
              /\ UNCHANGED <<chats, messages, nextMsg, clock>>
         ELSE LET id == nextMsg + 1
              IN  /\ messages' = AssistantInsert(messages, id,
                                                 turn[t].chatId, outputText,
                                                 now)
                  /\ nextMsg' = id
                  /\ clock' = now
                  /\ chats' = addMessageTouch(chats, turn[t].chatId, now)
                  /\ turn' = [turn EXCEPT ![t] =
                         Respond([turn[t] EXCEPT !.output = outputText,
                                                 !.assistantMsg = id],
                                 200, "")]
    /\ UNCHANGED <<apiKey, nextChat, titleCall>>

\* The response has been sent; the invocation's locals are gone
TurnEnds(t) ==
    /\ turn[t].pc = "done"
    /\ turn' = [turn EXCEPT ![t] = IdleTurn]
    /\ UNCHANGED <<apiKey, chats, messages, nextChat, nextMsg, clock,
                   titleCall>>

(***************************************************************************)
(* The conversation handlers of /api/chats (route.ts lines 289-323).       *)
(***************************************************************************)
ValidSpaces == {1, 2, 3}

\* The bodies POST /api/chats is sent: a space that is none (0 stands for
\* every such value), the first space and no title (what the page sends), the
\* last space and a title
ChatInputs == {[space |-> 0, given |-> FALSE, title |-> <<>>],
               [space |-> 1, given |-> FALSE, title |-> <<>>],
               [space |-> 3, given |-> TRUE, title |-> <<"T">>]}

\* The title of a chat created without one left empty
TitleOfEmpty(body) == IF body.given THEN body.title ELSE <<>>

\* Line 292: the title of the new chat
TitleOf(body) == IF body.given THEN body.title ELSE DefaultTitle

\* POST /api/chats
PostChats ==
    /\ NoneDone
    /\ nextChat < MaxChats
    /\ \E body \in ChatInputs, now \in Now :
         IF body.space \notin ValidSpaces
         THEN UNCHANGED <<chats, nextChat, clock>>
         ELSE /\ chats' = createChat(chats, ChatIdList[nextChat + 1],
                                     body.space,
                                     TitleOf(body),
                                     now, body.given)
              /\ nextChat' = nextChat + 1
              /\ clock' = now
    /\ UNCHANGED <<apiKey, messages, nextMsg, turn, titleCall>>

\* DELETE /api/chats and DELETE /api/chats/[id]
DeleteChats ==
    /\ NoneDone
    /\ \E chatId \in ReqChatIds :
         IF chatId = Null
         THEN UNCHANGED <<chats, messages>>
         ELSE /\ messages' = deleteChatMessages(messages, chatId)
              /\ chats' = deleteChatRow(chats, chatId)
    /\ UNCHANGED <<apiKey, nextChat, nextMsg, clock, turn, titleCall>>

(***************************************************************************)
(* The program: the process starts with an empty store.                    *)
(***************************************************************************)
NoTitleCall == [raw |-> <<>>, returned |-> FALSE]

Init ==
    /\ apiKey \in BOOLEAN
    /\ chats = [id \in {} |-> id]
    /\ messages = <<>>
    /\ nextChat = 0
    /\ nextMsg = 0
    /\ clock = 0
    /\ turn = [t \in Turns |-> IdleTurn]
    /\ titleCall = NoTitleCall

\* The handlers, with one invocation of the turn handler at a time; the
\* conversation handlers run between its awaits
Next ==
    \/ TurnStart("t1")
    \/ ExtractReturn("t1")
    \/ CallFails("t1")
    \/ CallReturns("t1")
    \/ TurnEnds("t1")
    \/ PostChats
    \/ DeleteChats

Spec == Init /\ [][Next]_vars

\* The program with its awaits settling: an extraction that is awaited
\* returns or throws, a completion that is awaited resolves or rejects, and
\* a response that is ready is sent
SpecLive ==
    /\ Spec
    /\ WF_vars(ExtractReturn("t1"))
    /\ WF_vars(CallFails("t1") \/ CallReturns("t1"))
    /\ WF_vars(TurnEnds("t1"))

(***************************************************************************)
(* Invocations of the turn handler that overlap: while one waits for an    *)
(* extraction or for the completion, Node runs the segments of another     *)
(* (and of the conversation handlers).                                     *)
(***************************************************************************)
\* body.text and body.files of the overlapping turns: no text or a text, no
\* file or a DOCX (whose extraction is awaited)
RaceTexts == {<<>>, <<"h", "i">>}

RaceFiles == {<<>>, <<DocxFile>>}

RaceStart(t) ==
    /\ nextMsg + InFlight + 2 <= MaxRaceMsgs
    /\ TurnBody(t, ReqChatIds, RaceTexts, ImageLists, RaceFiles)

\* The process starts on a store that holds one chat, created by an earlier
\* run and not written to since
InitRace ==
    /\ apiKey = TRUE
    /\ chats = ("c1" :> ChatRow(1, DefaultTitle, 0, FALSE))
    /\ messages = <<>>
    /\ nextChat = 1
    /\ nextMsg = 0
    /\ clock = 0
    /\ turn = [t \in Turns |-> IdleTurn]
    /\ titleCall = NoTitleCall

NextRace ==
    \/ \E t \in Turns :
          \/ RaceStart(t)
          \/ ExtractReturn(t)
          \/ CallFails(t)
          \/ CallReturns(t)
          \/ TurnEnds(t)
    \/ DeleteChats

SpecRace == InitRace /\ [][NextRace]_vars

(***************************************************************************)
(* The replay of a stored history: the process starts on a store that      *)
(* holds one chat with the messages of earlier turns, and a turn arrives.  *)
(***************************************************************************)
\* The texts of stored user messages (the handler stores them trimmed)
SeedUserTexts == {<<>>, <<"h", "i">>}

\* The texts of stored replies (the handler stores the completion as it
\* came): none, whitespace only, text within whitespace
SeedReplyTexts == {<<>>, <<" ">>, <<" ", "o", "k", " ">>}

\* The messages earlier turns left for the chat: none, the user message of
\* a turn that failed, those of two such turns, or a turn and its reply
SeedHistories ==
    {<<>>}
    \cup {<<MessageRow(1, "c1", "user", u, 0)>> : u \in SeedUserTexts}
    \cup {<<MessageRow(1, "c1", "user", u, 0),
            MessageRow(2, "c1", "user", v, 0)>>
           : u \in SeedUserTexts, v \in SeedUserTexts}
    \cup {<<MessageRow(1, "c1", "user", u, 0),
            MessageRow(2, "c1", "assistant", r, 0)>>
           : u \in SeedUserTexts, r \in SeedReplyTexts}

InitReplay ==
    /\ apiKey = TRUE
    /\ chats = ("c1" :> ChatRow(3, <<"T">>, 0, TRUE))
    /\ messages \in SeedHistories
    /\ nextChat = 1
    /\ nextMsg = Len(messages)
    /\ clock = 0
    /\ turn = [t \in Turns |-> IdleTurn]
    /\ titleCall = NoTitleCall

NextReplay ==
    \/ RaceStart("t1")
    \/ ExtractReturn("t1")
    \/ CallFails("t1")
    \/ CallReturns("t1")
    \/ TurnEnds("t1")

SpecReplay == InitReplay /\ [][NextReplay]_vars

(***************************************************************************)
(* The title of a chat as a function of the text of a turn: one chat with  *)
(* the placeholder title receives one turn's text (route.ts lines 46 and   *)
(* 81-83, db.ts lines 64-69 and 144-155).                                  *)
(***************************************************************************)
Repeat(ch, n) == [i \in 1..n |-> ch]

\* Every text of at most MaxShort characters over a letter and two kinds of
\* whitespace
ShortTexts == UNION {[1..n -> {"a", " ", "\t"}] : n \in 0..MaxShort}

\* Texts around the cap: plain, padded with whitespace on both ends, with an
\* inner run of whitespace, and with a space as the last character kept
LongTexts ==
    UNION {{Repeat("a", n),
            <<" ", "\t">> \o Repeat("a", n) \o <<" ">>,
            Repeat("a", n - 2) \o <<" ", "\t", " ", "b">>,
            Repeat("a", TitleKeep - 1) \o <<" ">>
                \o Repeat("b", n - TitleKeep)}
           : n \in (TitleMax - MaxOver)..(TitleMax + MaxOver)}

TitleTexts == ShortTexts \cup LongTexts

InitTitle ==
    /\ apiKey = TRUE
    /\ chats = ("c1" :> ChatRow(1, DefaultTitle, 0, FALSE))
    /\ messages = <<>>
    /\ nextChat = 1
    /\ nextMsg = 0
    /\ clock = 0
    /\ turn = [t \in Turns |-> IdleTurn]
    /\ titleCall \in {[raw |-> raw, returned |-> FALSE] : raw \in TitleTexts}

ApplyTitle ==
    /\ ~titleCall.returned
    /\ chats' = TitleAfterUser(chats, "c1", Trim(titleCall.raw))
    /\ titleCall' = [titleCall EXCEPT !.returned = TRUE]
    /\ UNCHANGED <<apiKey, messages, nextChat, nextMsg, clock, turn>>

NextTitle == ApplyTitle

SpecTitle == InitTitle /\ [][NextTitle]_vars

(***************************************************************************)
(* Properties.                                                             *)
(***************************************************************************)
ChatIds == {ChatIdList[i] : i \in 1..MaxChats}

\* The message with this id is stored, with this chat and role
Stored(ms, id, chatId, role) ==
    \E i \in 1..Len(ms) :
        ms[i].id = id /\ ms[i].chatId = chatId /\ ms[i].role = role

\* The user's message of invocation t is stored in its conversation, or the
\* conversation has been deleted since (which removes its messages)
UserMessageKept(t) ==
    /\ turn[t].userMsg # 0
    /\ turn[t].chatId \in DOMAIN chats
         => Stored(messages, turn[t].userMsg, turn[t].chatId, "user")

\* The responses of the request builder's rejections
BuilderErrors == {"file-empty", "file-unreadable", "no-content"}

\* C1: an invocation that has issued the completion call has stored its
\* user message before; when the call fails the invocation answers 500, the
\* step leaves the store as it is (the user's message stays, no reply is
\* added) and the invocation has stored no assistant message.
C1_UserPersistedBeforeCall ==
    [][\A t \in Turns :
          /\ turn'[t].pc = "call" => UserMessageKept(t)'
          /\ (turn[t].pc = "call" /\ turn'[t].pc = "done"
                /\ turn'[t].error = "upstream")
               => /\ turn'[t].status = 500
                  /\ turn'[t].assistantMsg = 0
                  /\ messages' = messages
                  /\ chats' = chats
                  /\ UserMessageKept(t)']_vars

C1_Witness ==
    \E t \in Turns :
        /\ turn[t].pc = "done"
        /\ turn[t].status = 500
        /\ turn[t].error = "upstream"
        /\ turn[t].calls = 1
        /\ Stored(messages, turn[t].userMsg, turn[t].chatId, "user")

\* A start of invocation t with a request that has no content
EmptyTurnStart(t) ==
    TurnStartWith(t, ReqChatIds, {<<>>, <<" ">>}, {<<>>}, {<<>>})

\* C2 as stated: a turn with empty or whitespace-only text, no image and no
\* file is answered 400, stores nothing, changes no chat and calls no API.
C2_EmptyTurnIs400 ==
    [][\A t \in Turns :
          EmptyTurnStart(t)
            => /\ turn'[t].pc = "done"
               /\ turn'[t].status = 400
               /\ turn'[t].userMsg = 0
               /\ turn'[t].calls = 0
               /\ messages' = messages
               /\ chats' = chats]_vars

\* C2 amended: such a turn is answered 400 when the API key is configured
\* and 500 when it is not (the key is checked first); either way it stores
\* nothing, changes no chat and calls no API.
C2_EmptyTurnRejected ==
    [][\A t \in Turns :
          EmptyTurnStart(t)
            => /\ turn'[t].pc = "done"
               /\ turn'[t].status = (IF apiKey THEN 400 ELSE 500)
               /\ turn'[t].userMsg = 0
               /\ turn'[t].calls = 0
               /\ messages' = messages
               /\ chats' = chats]_vars

C2_Witness ==
    \E t \in Turns :
        /\ turn[t].pc = "done"
        /\ turn[t].status = 400
        /\ turn[t].error = "need-content"
        /\ Len(messages) > 0

\* A start of invocation t with a request that has content and names chatId
ContentTurnStart(t, chatId) ==
    \E raw \in RawTexts, images \in ImageLists, files \in FileLists :
        /\ ~NoContent(Trim(raw), images, files)
        /\ TurnStartWith(t, {chatId}, {raw}, {images}, {files})

\* C3 as stated: a turn with content that names a chat the store does not
\* hold is answered 404, leaves the store as it is and calls no API.
C3_MissingChatIs404 ==
    [][\A t \in Turns, c \in ChatIds :
          (c \notin DOMAIN chats /\ turn[t].pc = "idle"
             /\ turn'[t].pc # "idle" /\ ContentTurnStart(t, c))
            => /\ turn'[t].pc = "done"
               /\ turn'[t].status = 404
               /\ turn'[t].calls = 0
               /\ messages' = messages
               /\ chats' = chats]_vars

\* C3 amended: such a turn is answered 404 when the API key is configured
\* and 500 when it is not; either way the store is left as it is and no API
\* is called.
C3_MissingChatRejected ==
    [][\A t \in Turns, c \in ChatIds :
          (c \notin DOMAIN chats /\ turn[t].pc = "idle"
             /\ turn'[t].pc # "idle" /\ ContentTurnStart(t, c))
            => /\ turn'[t].pc = "done"
               /\ turn'[t].status = (IF apiKey THEN 404 ELSE 500)
               /\ turn'[t].calls = 0
               /\ messages' = messages
               /\ chats' = chats]_vars

C3_Witness ==
    \E t \in Turns :
        /\ turn[t].pc = "done"
        /\ turn[t].status = 404
        /\ turn[t].chatId \notin DOMAIN chats
        /\ Len(messages) > 0

\* C4: when the request builder rejects the turn (a DOCX without text, a
\* DOCX that cannot be read, an empty current turn), the response is 400,
\* the invocation has called no API, and it has stored its user message
\* before, which the rejecting step leaves in the store.
C4_BuilderRejects ==
    [][\A t \in Turns :
          (turn[t].pc # "done" /\ turn'[t].pc = "done"
             /\ turn'[t].error \in BuilderErrors)
            => /\ turn'[t].status = 400
               /\ turn'[t].calls = 0
               /\ turn'[t].assistantMsg = 0
               /\ UserMessageKept(t)'
               /\ turn[t].pc = "extract"
                    => messages' = messages /\ chats' = chats]_vars

C4_Witness ==
    \E t \in Turns :
        /\ turn[t].pc = "done"
        /\ turn[t].status = 400
        /\ turn[t].error = "file-empty"
        /\ Stored(messages, turn[t].userMsg, turn[t].chatId, "user")

Unsupported(file) == ~isPdf(file) /\ ~isDocx(file)

\* A start of invocation t, with the API key configured, on a stored chat,
\* with a document among the files that is neither a PDF nor a DOCX
UnsupportedTurnStart(t) ==
    /\ apiKey
    /\ \E files \in FileLists :
         /\ \E i \in 1..Len(files) : Unsupported(files[i])
         /\ TurnStartWith(t, DOMAIN chats, RawTexts, ImageLists, {files})

\* C5: a turn with a document that is neither a PDF nor a DOCX is answered
\* 400 and calls no API, whatever text and images come with it.
C5_UnsupportedRejected ==
    [][\A t \in Turns :
          UnsupportedTurnStart(t)
            => /\ turn'[t].pc = "done"
               /\ turn'[t].status = 400
               /\ turn'[t].calls = 0]_vars

\* A user message with text is stored for the chat
HasTextFromUser(ms, chatId) ==
    \E i \in 1..Len(ms) :
        ms[i].chatId = chatId /\ ms[i].role = "user" /\ ms[i].text # <<>>

\* C6: a chat created without a title has the placeholder title as long as
\* no user message with text is stored for it.
C6_DefaultTitleUntilText ==
    \A c \in DOMAIN chats :
        (~chats[c].explicit /\ ~HasTextFromUser(messages, c))
          => chats[c].title = DefaultTitle

C6_Witness ==
    \E c \in DOMAIN chats :
        /\ ~chats[c].explicit
        /\ chats[c].title = DefaultTitle
        /\ \E i \in 1..Len(messages) :
             /\ messages[i].chatId = c
             /\ messages[i].role = "user"
             /\ messages[i].text = <<>>

\* The whitespace-normalized text, character by character: a character
\* that is no whitespace stays; of a run of whitespace that has text on both
\* sides the first character stays, as a space; the rest goes
RECURSIVE NormFrom(_, _)
NormFrom(s, i) ==
    IF i > Len(s) THEN <<>>
    ELSE IF s[i] \notin Whitespace THEN <<s[i]>> \o NormFrom(s, i + 1)
    ELSE IF /\ i > 1
            /\ s[i - 1] \notin Whitespace
            /\ \E j \in (i + 1)..Len(s) : s[j] \notin Whitespace
         THEN <<" ">> \o NormFrom(s, i + 1)
    ELSE NormFrom(s, i + 1)

NormText(s) == NormFrom(s, 1)

\* The title specified for a text: the normalized text, or its first 57
\* characters and three dots when it has more than 60
ExpectedTitle(s) ==
    IF Len(NormText(s)) > 60
    THEN SubSeq(NormText(s), 1, 57) \o <<".", ".", ".">>
    ELSE NormText(s)

\* The step stores one more message, a user message with text, for the chat
AppendsUserText(c) ==
    /\ Len(messages') = Len(messages) + 1
    /\ messages'[Len(messages')].chatId = c
    /\ messages'[Len(messages')].role = "user"
    /\ messages'[Len(messages')].text # <<>>

\* C7 as stated: the title is replaced once, by the first user message with
\* text, and never again: once a user message with text is stored for a
\* chat, no step changes the chat's title.
C7_TitleSetOnce ==
    [][\A c \in DOMAIN chats \cap DOMAIN chats' :
          HasTextFromUser(messages, c)
            => chats'[c].title = chats[c].title]_vars

\* C7 amended: the title changes only while it is the placeholder: a user
\* message with text stored for a chat whose title is the placeholder sets
\* the title to the title of that text, no other step changes a title, and
\* once the title is not the placeholder no later message changes it.
C7_TitleSetWhileDefault ==
    [][\A c \in DOMAIN chats \cap DOMAIN chats' :
          /\ chats[c].title # DefaultTitle
               => chats'[c].title = chats[c].title
          /\ chats'[c].title # chats[c].title => AppendsUserText(c)
          /\ (AppendsUserText(c) /\ chats[c].title = DefaultTitle)
               => chats'[c].title =
                     ExpectedTitle(messages'[Len(messages')].text)]_vars

C7_Witness ==
    \E c \in DOMAIN chats :
        /\ ~chats[c].explicit
        /\ \E i, j \in 1..Len(messages) :
             /\ i < j
             /\ messages[i].chatId = c /\ messages[j].chatId = c
             /\ messages[i].role = "user" /\ messages[j].role = "user"
             /\ messages[i].text # <<>> /\ messages[j].text # <<>>
             /\ chats[c].title = ExpectedTitle(messages[i].text)
             /\ chats[c].title # ExpectedTitle(messages[j].text)

\* C8: the title a turn's text gives a chat is the whitespace-normalized
\* text when that has at most 60 characters, and else its first 57
\* characters followed by three dots, 60 characters in all.
C8_DerivedTitle ==
    (titleCall.returned /\ Trim(titleCall.raw) # <<>>)
      => /\ chats["c1"].title = ExpectedTitle(titleCall.raw)
         /\ Len(NormText(titleCall.raw)) > 60
              => /\ Len(chats["c1"].title) = 60
                 /\ SubSeq(chats["c1"].title, 58, 60) = <<".", ".", ".">>
         /\ Len(NormText(titleCall.raw)) <= 60
              => chats["c1"].title = NormText(titleCall.raw)

C8_Witness ==
    /\ titleCall.returned
    /\ Len(NormText(titleCall.raw)) > 60
    /\ Len(titleCall.raw) > Len(NormText(titleCall.raw))
    /\ Len(chats["c1"].title) = 60

\* The chat has been created and deleted
Deleted(c, chs, created) ==
    /\ c \notin DOMAIN chs
    /\ \E i \in 1..created : ChatIdList[i] = c

\* C9: the step that deletes a stored chat leaves no message of it and no
\* row of it, and leaves the rows and the messages of every other chat as
\* they are; a deleted chat stays without row and without messages.
C9_DeleteRemovesMessages ==
    [][\A c \in ChatIds :
          /\ (c \in DOMAIN chats /\ c \notin DOMAIN chats')
               => /\ listMessages(messages', c) = <<>>
                  /\ \A d \in DOMAIN chats \ {c} :
                       /\ d \in DOMAIN chats'
                       /\ chats'[d] = chats[d]
                       /\ listMessages(messages', d)
                            = listMessages(messages, d)
          /\ Deleted(c, chats, nextChat)
               => /\ listMessages(messages, c) = <<>>
                  /\ Deleted(c, chats', nextChat')
                  /\ listMessages(messages', c) = <<>>]_vars

\* A chat was deleted while an invocation on it waited for the completion,
\* the invocation has answered since, and another chat kept its message
C9_Witness ==
    \E c \in ChatIds, t \in Turns :
        /\ Deleted(c, chats, nextChat)
        /\ turn[t].pc = "done"
        /\ turn[t].chatId = c
        /\ turn[t].userMsg # 0
        /\ turn[t].calls = 1
        /\ listMessages(messages, c) = <<>>
        /\ \E d \in DOMAIN chats : listMessages(messages, d) # <<>>

\* C10: no step moves the updated timestamp of a chat backwards, and a step
\* that stores a message for a chat sets the chat's updated timestamp to
\* the message's creation time, which is not before the previous value.
C10_UpdatedNeverBack ==
    [][\A c \in DOMAIN chats \cap DOMAIN chats' :
          /\ chats'[c].updatedAt >= chats[c].updatedAt
          /\ (Len(messages') = Len(messages) + 1
                /\ messages'[Len(messages')].chatId = c)
               => /\ chats'[c].updatedAt
                       = messages'[Len(messages')].createdAt
                  /\ messages'[Len(messages')].createdAt
                       >= chats[c].updatedAt]_vars

C10_Witness ==
    \E c \in DOMAIN chats :
        /\ chats[c].updatedAt > chats[c].createdAt
        /\ \E i, j \in 1..Len(messages) :
             /\ i < j
             /\ messages[i].chatId = c /\ messages[j].chatId = c
             /\ messages[i].createdAt < messages[j].createdAt
             /\ messages[j].createdAt = chats[c].updatedAt

\* The position in the messages table of the last message stored for a chat
\* (0 when it has none)
LastOf(ms, chatId) ==
    LET own == {i \in 1..Len(ms) : ms[i].chatId = chatId}
    IN  IF own = {} THEN 0 ELSE CHOOSE i \in own : \A j \in own : j <= i

C12_ListedBySpace ==
    /\ \A s \in {0} \cup ValidSpaces :
          LET rows == listChats(chats, s)
          IN  /\ \A i \in 1..Len(rows) :
                    /\ rows[i].space = s
                    /\ rows[i].id \in DOMAIN chats
                    /\ rows[i] = mapChat(chats, rows[i].id)
                    /\ \A j \in 1..Len(rows) :
                          rows[j].id = rows[i].id => j = i
              /\ \A c \in DOMAIN chats :
                    chats[c].space = s
                      => \E i \in 1..Len(rows) : rows[i].id = c
    /\ \A c \in DOMAIN chats : chats[c].space \in {1, 2, 3}

\* Two chats of different spaces are stored, and each is the only one listed
\* for its space
C12_Witness ==
    \E c, d \in DOMAIN chats :
        /\ chats[c].space = 1
        /\ chats[d].space = 3
        /\ Len(listChats(chats, 1)) = 1
        /\ listChats(chats, 1)[1].id = c
        /\ Len(listChats(chats, 3)) = 1
        /\ listChats(chats, 3)[1].id = d

\* C13: an invocation issues at most one call to the completion API: the
\* count of its calls only goes from none to one, with the step that starts
\* waiting for the completion; a failed call is answered 500 at once, with
\* no further call; and an invocation answered 400 or 404 has issued none.
C13_SingleCall ==
    [][\A t \in Turns :
          /\ turn'[t].calls <= 1
          /\ turn'[t].calls > turn[t].calls
               => /\ turn[t].calls = 0
                  /\ turn[t].pc \in {"idle", "extract"}
                  /\ turn'[t].pc = "call"
          /\ (turn[t].pc = "call" /\ turn'[t] # turn[t]
                /\ turn'[t].assistantMsg = 0)
               => /\ turn'[t].pc = "done"
                  /\ turn'[t].status = 500
                  /\ turn'[t].calls = 1
          /\ (turn'[t].pc = "done" /\ turn'[t].status \in {400, 404})
               => turn'[t].calls = 0]_vars

\* A failed call answered 500, with the one call on the invocation's count
\* and the user's message the only message handed out
C13_Witness ==
    \E t \in Turns :
        /\ turn[t].pc = "done"
        /\ turn[t].status = 500
        /\ turn[t].error = "upstream"
        /\ turn[t].calls = 1
        /\ turn[t].assistantMsg = 0
        /\ nextMsg = 1

\* C14: an invocation that waits for an extraction or for the completion
\* answers in the end; its response is 200, 400, 404 or 500, and 200 only
\* without an error; once it has answered it does nothing more (the store
\* stays as it is until the invocation is over); and an invocation that
\* answers with an error has stored no reply and, unless the error is that
\* of the call or of storing the reply, has issued no call.
C14_TurnTerminates ==
    /\ \A t \in Turns :
          (turn[t].pc \in {"extract", "call"}) ~> (turn[t].pc = "done")
    /\ \A t \in Turns : (turn[t].pc = "done") ~> (turn[t].pc = "idle")
    /\ [](\A t \in Turns :
             turn[t].pc = "done"
                  => /\ turn[t].status \in {200, 400, 404, 500}
                     /\ turn[t].status = 200 <=> turn[t].error = ""
                     /\ turn[t].status # 200 => turn[t].assistantMsg = 0
                     /\ turn[t].status \in {400, 404} => turn[t].calls = 0)
    /\ [][\A t \in Turns :
             /\ turn[t].pc = "done"
                  => /\ turn'[t] = IdleTurn
                     /\ messages' = messages
                     /\ chats' = chats
             /\ (turn[t].pc # "done" /\ turn'[t].pc = "done"
                   /\ turn'[t].status # 200)
                  => \A i \in 1..Len(messages') :
                        messages'[i].role = "assistant"
                          => \E j \in 1..Len(messages) :
                                messages[j] = messages'[i]]_vars

\* An invocation has answered 400 after waiting for an extraction that
\* threw, its user message stored and no call issued
C14_Witness ==
    \E t \in Turns :
        /\ turn[t].pc = "done"
        /\ turn[t].status = 400
        /\ turn[t].error = "file-unreadable"
        /\ turn[t].calls = 0
        /\ turn[t].userMsg # 0

\* The step appends one message to the table, with this id, chat and role
Appends(id, chatId, role) ==
    /\ Len(messages') = Len(messages) + 1
    /\ messages'[Len(messages')].id = id
    /\ messages'[Len(messages')].chatId = chatId
    /\ messages'[Len(messages')].role = role
    /\ \A i \in 1..Len(messages) : messages[i].id # id

\* C15: a step stores at most one message, and the message is the user
\* message or the reply of one invocation.  An invocation stores its user
\* message once, in its first step; it stores its reply once, after its user
\* message, in the step in which its one call resolves, and that step
\* answers 200 with the reply's text as the output and the stored reply as
\* the message returned.
C15_OneUserOneReply ==
    [][/\ Len(messages') <= Len(messages) + 1
       /\ Len(messages') = Len(messages) + 1
            => \E t \in Turns :
                  messages'[Len(messages')].id
                      \in {turn'[t].userMsg, turn'[t].assistantMsg}
       /\ \A t \in Turns :
            /\ (turn'[t].userMsg # turn[t].userMsg /\ turn'[t] # IdleTurn)
                 => /\ turn[t].pc = "idle"
                    /\ turn[t].userMsg = 0
                    /\ turn'[t].assistantMsg = 0
                    /\ Appends(turn'[t].userMsg, turn'[t].chatId, "user")
            /\ (turn'[t].assistantMsg # turn[t].assistantMsg
                  /\ turn'[t] # IdleTurn)
                 => /\ turn[t].pc = "call"
                    /\ turn[t].calls = 1
                    /\ turn[t].assistantMsg = 0
                    /\ turn[t].userMsg # 0
                    /\ turn'[t].userMsg = turn[t].userMsg
                    /\ turn[t].userMsg < turn'[t].assistantMsg
                    /\ Appends(turn'[t].assistantMsg, turn[t].chatId,
                               "assistant")
                    /\ turn'[t].pc = "done"
                    /\ turn'[t].status = 200
                    /\ messages'[Len(messages')].text = turn'[t].output
            /\ (turn'[t].pc = "done" /\ turn'[t].status = 200)
                 => /\ turn[t].pc = "call"
                    /\ turn'[t].assistantMsg # 0
                    /\ turn[t].assistantMsg = 0]_vars

\* An invocation has answered 200 with a reply that has text; its user
\* message and, after it, its reply are stored, the reply with the output
C15_Witness ==
    \E t \in Turns, i, j \in 1..Len(messages) :
        /\ turn[t].pc = "done"
        /\ turn[t].status = 200
        /\ turn[t].output # <<>>
        /\ i < j
        /\ messages[i].id = turn[t].userMsg
        /\ messages[i].role = "user"
        /\ messages[j].id = turn[t].assistantMsg
        /\ messages[j].role = "assistant"
        /\ messages[j].text = turn[t].output

\* The messages stored for a chat, in the order of their insertion
OfChat(ms, chatId) == SelectSeq(ms, LAMBDA m : m.chatId = chatId)

\* The stored message with this id
MessageOf(ms, id) == ms[CHOOSE i \in 1..Len(ms) : ms[i].id = id]

\* The entries of an invocation's input that replay the history: all of
\* them until the current turn is appended (with the call), and all but the
\* last from then on
HistoryPart(rec) ==
    SubSeq(rec.input, 1,
           IF rec.pc = "call" THEN Len(rec.input) - 1 ELSE Len(rec.input))

\* The entry that replays a user message with this text
UserEntry(text) ==
    [role |-> "user", content |-> <<[type |-> "input_text", text |-> text]>>]

\* Invocation u starts on the chat on which invocation t waits (for an
\* extraction or for the completion), t's user message being stored
OverlappingStart(t, u) ==
    /\ t # u
    /\ turn[t].pc \in {"extract", "call"}
    /\ turn[u].pc = "idle"
    /\ turn'[u].pc # "idle"
    /\ turn'[u].chatId = turn[t].chatId
    /\ turn'[u].userMsg # 0
    /\ Stored(messages, turn[t].userMsg, turn[t].chatId, "user")

\* C16: nothing serializes two invocations on one chat.  When an
\* invocation starts on a chat on which another waits, it is neither held
\* back nor rejected: it stores its user message, the chat then holds two
\* user messages in a row, the waiting invocation has no reply stored, and
\* the history the new invocation replays holds the waiting invocation's
\* user message (when that has text).
C16_NotSerialized ==
    [][\A t, u \in Turns :
          OverlappingStart(t, u)
            => LET c == turn[t].chatId
                   first == MessageOf(messages, turn[t].userMsg)
                   own == OfChat(messages', c)
                   replayed == HistoryPart(turn'[u])
               IN  /\ turn'[u].pc \in {"extract", "call"}
                   /\ turn[t].assistantMsg = 0
                   /\ turn'[t] = turn[t]
                   /\ Appends(turn'[u].userMsg, c, "user")
                   /\ \E i \in 1..(Len(own) - 1) :
                         own[i].role = "user" /\ own[i + 1].role = "user"
                   /\ Trim(first.text) # <<>>
                        => \E k \in 1..Len(replayed) :
                              replayed[k] = UserEntry(Trim(first.text))]_vars

\* Two invocations wait for the completion on one chat; the chat holds their
\* two user messages and nothing else, and the input of the second is the
\* user message of the first followed by its own turn
C16_Witness ==
    \E t, u \in Turns, c \in DOMAIN chats :
        /\ t # u
        /\ turn[t].pc = "call" /\ turn[u].pc = "call"
        /\ turn[t].chatId = c /\ turn[u].chatId = c
        /\ Len(OfChat(messages, c)) = 2
        /\ OfChat(messages, c)[1].id = turn[t].userMsg
        /\ OfChat(messages, c)[1].role = "user"
        /\ OfChat(messages, c)[2].id = turn[u].userMsg
        /\ OfChat(messages, c)[2].role = "user"
        /\ Len(turn[t].input) = 1
        /\ Len(turn[u].input) = 2
        /\ turn[u].input[1] = UserEntry(OfChat(messages, c)[1].text)
        /\ turn[u].input[2].role = "user"

\* C17: in every state every stored message is of a stored chat; and an
\* invocation whose chat has been deleted while it waited stores nothing
\* when it goes on: it leaves the messages as they are and has no reply
\* stored, and when it was the completion it waited for it answers 500.
C17_NoOrphanMessage ==
    /\ [](\A i \in 1..Len(messages) : messages[i].chatId \in DOMAIN chats)
    /\ [][\A t \in Turns :
             (turn[t].pc \in {"extract", "call"}
                /\ turn[t].chatId \notin DOMAIN chats
                /\ turn'[t] # turn[t])
               => /\ messages' = messages
                  /\ chats' = chats
                  /\ turn'[t].assistantMsg = 0
                  /\ turn[t].pc = "call"
                       => /\ turn'[t].pc = "done"
                          /\ turn'[t].status = 500]_vars

\* The chat of an invocation was deleted while it waited for the
\* completion; the completion resolved, the reply could not be stored, and
\* no message of the chat is stored
C17_Witness ==
    \E t \in Turns :
        /\ turn[t].pc = "done"
        /\ turn[t].error = "constraint"
        /\ turn[t].status = 500
        /\ turn[t].chatId \notin DOMAIN chats
        /\ turn[t].assistantMsg = 0
        /\ \A i \in 1..Len(messages) : messages[i].chatId # turn[t].chatId

\* The positions of the messages of a history whose trimmed text is not
\* empty
Replayable(h) == {i \in 1..Len(h) : Trim(h[i].text) # <<>>}

\* The position in a history of the k-th such message
NthReplayable(h, k) ==
    CHOOSE i \in Replayable(h) :
        Cardinality({j \in Replayable(h) : j < i}) = k - 1

\* The entries specified for a history: one for each message with text, in
\* the order of the history, with the role of the message, the tag of the
\* role and the trimmed text
ReplayOf(h) ==
    [k \in 1..Cardinality(Replayable(h)) |->
        LET m == h[NthReplayable(h, k)]
        IN  [role |-> m.role,
             content |-> <<[type |-> IF m.role = "user" THEN "input_text"
                                     ELSE "output_text",
                            text |-> Trim(m.text)]>>]]

\* C18: the input of an invocation is, from its first step on, the replay
\* of the messages stored for its chat before that step (its own user
\* message, stored in that step, is not among them): one entry for each
\* message with text, in stored order, with the message's role and the
\* role's tag; the step that issues the call appends one entry, with role
\* user, that holds the content of the current turn, and no other step
\* changes the input of an invocation that waits.
C18_ReplayThenCurrent ==
    [][\A t \in Turns :
          /\ (turn[t].pc = "idle" /\ turn'[t].pc \in {"extract", "call"})
               => /\ HistoryPart(turn'[t])
                        = ReplayOf(OfChat(messages, turn'[t].chatId))
                  /\ Appends(turn'[t].userMsg, turn'[t].chatId, "user")
          /\ (turn[t].pc = "extract" /\ turn'[t].pc \in {"extract", "call"})
               => HistoryPart(turn'[t]) = turn[t].input
          /\ (turn[t].pc # "call" /\ turn'[t].pc = "call")
               => /\ Len(turn'[t].input) = Len(HistoryPart(turn'[t])) + 1
                  /\ turn'[t].content # <<>>
                  /\ turn'[t].input[Len(turn'[t].input)]
                        = [role |-> "user", content |-> turn'[t].content]
          /\ (turn[t].pc = "call" /\ turn'[t].pc = "call")
               => turn'[t].input = turn[t].input]_vars

\* An invocation waits for the completion with an input of three entries:
\* a user message, a reply whose stored text has whitespace around it, and
\* the current turn; the chat holds three messages, the last the user
\* message of the invocation
C18_Witness ==
    \E t \in Turns :
        /\ turn[t].pc = "call"
        /\ Len(turn[t].input) = 3
        /\ turn[t].input[1] = UserEntry(<<"h", "i">>)
        /\ turn[t].input[2].role = "assistant"
        /\ turn[t].input[2].content[1].type = "output_text"
        /\ turn[t].input[2].content[1].text = <<"o", "k">>
        /\ turn[t].input[3].role = "user"
        /\ Len(OfChat(messages, turn[t].chatId)) = 3
        /\ messages[Len(messages)].id = turn[t].userMsg
        /\ messages[2].text = <<" ", "o", "k", " ">>

====
